---- MODULE Spec2Model ----
(***************************************************************************)
(* A model of the composition engine of the benchmark/metrics operator:    *)
(* option parsing and validation of plugins (addons and metrics), the      *)
(* assembly of container and volume specs, and the customization of        *)
(* entrypoint scripts by the HPCToolkit addon.                             *)
(*                                                                         *)
(* Strings of the program are TLA+ strings (\o is Go's string              *)
(* concatenation).  A script block (Pre, Post) is the sequence of its      *)
(* non-blank lines; appending a block appends its lines.                   *)
(***************************************************************************)
EXTENDS Integers, Sequences, FiniteSets, TLC

VARIABLES
    pc,      \* position of the composition run
    base,    \* the container specs as base assembly produced them
    decl,    \* the addon declarations (option bags) read so far, in declared order
    cs,      \* []*specs.ContainerSpec handed from phase to phase
    vols,    \* []specs.VolumeSpec collected from the addons
    addons,  \* the declared addons, configured and validated, in declared order
    next,    \* index of the next addon whose CustomizeEntrypoints runs
    out,     \* what the run returns to the pipeline
    kind,    \* the plugin type of the instance under configuration
    inst,    \* a plugin instance, as SetOptions left it
    bag,     \* the option bag of the latest SetOptions on inst
    nset,    \* how many times SetOptions ran on inst
    copy,    \* a fresh instance configured from the options inst exports
    assembled, \* the volume specs AssembleVolumes returned for inst
    sets,    \* the metric sets of a reconcile: name -> entrypoint scripts
    runs,    \* the outputs of two runs on the same input
    cluster, \* the config map of the MetricSet in the cluster, if any
    ret,     \* what the latest ensureConfigMaps returned
    ncalls,  \* how many times ensureConfigMaps ran
    mset,    \* the declared MetricSet: its metrics and its application
    insts,   \* the metric instances of the set, as SetOptions left them
    pods,    \* the containers getContainers returns
    entrypoints \* the entrypoint script of every metric of the set

composeVars == <<base, decl, cs, vols, addons, next, out>>
optionVars == <<kind, inst, bag, nset, copy, assembled>>
runVars == <<sets, runs, cluster, ret, ncalls>>
podVars == <<mset, insts, pods, entrypoints>>
vars == <<pc, composeVars, optionVars, runVars, podVars>>

----------------------------------------------------------------------------
(* Bounds of the model *)

MaxContainers == 2
MaxAddons == 2
MaxSetOptions == 2
MaxScripts == 2
MaxMetrics == 2
MaxReconciles == 2

----------------------------------------------------------------------------
(* Generic helpers *)

RECURSIVE SeqOfLen(_, _)
SeqOfLen(S, n) ==
    IF n = 0 THEN {<<>>}
    ELSE {Append(s, x) : s \in SeqOfLen(S, n - 1), x \in S}

SeqsUpTo(S, n) == UNION {SeqOfLen(S, k) : k \in 1..n}

IsPrefix(s, t) == Len(s) <= Len(t) /\ SubSeq(t, 1, Len(s)) = s

Count(s, x) == Cardinality({i \in 1..Len(s) : s[i] = x})

Positions(s, x) == {i \in 1..Len(s) : s[i] = x}

\* an option bag of an api.MetricAddon / api.Metric: string keys to values
NoOptions == [k \in {} |-> ""]
HasOpt(m, k) == k \in DOMAIN m.Options
HasMapOpt(m, k) == k \in DOMAIN m.MapOptions

----------------------------------------------------------------------------
(* Markers of pkg/metadata *)

CollectionStart == "METRICS OPERATOR COLLECTION START"
Separator == "METRICS OPERATOR TIMEPOINT"
CollectionEnd == "METRICS OPERATOR COLLECTION END"

Echo(s) == "echo " \o s

----------------------------------------------------------------------------
(* path/filepath on clean slash paths *)

RECURSIVE LastSlash(_, _)
LastSlash(p, i) ==
    IF i = 0 THEN 0
    ELSE IF SubSeq(p, i, i) = "/" THEN i
    ELSE LastSlash(p, i - 1)

\* filepath.Base: the last element of the path
Base(p) ==
    IF p = "" THEN "."
    ELSE IF p = "/" THEN "/"
    ELSE SubSeq(p, LastSlash(p, Len(p)) + 1, Len(p))

\* filepath.Dir: all but the last element of the path
Dir(p) ==
    LET i == LastSlash(p, Len(p)) IN
    IF i = 0 THEN "."
    ELSE IF i = 1 THEN "/"
    ELSE SubSeq(p, 1, i - 1)

----------------------------------------------------------------------------
(* ApplicationAddon *)

NoResources == [k \in {} |-> NoOptions]

ApplicationAddon_New(id) ==
    [Identifier |-> id, image |-> "", command |-> "", workingDir |-> "",
     entrypoint |-> "", pullSecret |-> "", resources |-> NoResources,
     privileged |-> FALSE, workdir |-> ""]

ApplicationAddon_Validate(a) ==
    IF a.image = "" THEN FALSE
    ELSE IF a.command = "" THEN FALSE
    ELSE TRUE

setDefaultEntrypoint(a) ==
    [a EXCEPT !.entrypoint = "/metrics_operator/" \o a.Identifier \o "-entrypoint.sh"]

SetDefaultOptions(a, m) ==
    LET limits ==
            IF HasMapOpt(m, "resourceLimits")
            THEN [k \in {"limits"} |-> m.MapOptions["resourceLimits"]]
            ELSE NoResources
        requests ==
            IF HasMapOpt(m, "resourceRequests")
            THEN [k \in {"requests"} |-> m.MapOptions["resourceRequests"]]
            ELSE NoResources
        a1 == [a EXCEPT
                !.resources = limits @@ requests,
                !.image = IF HasOpt(m, "image") THEN m.Options["image"] ELSE @,
                !.command = IF HasOpt(m, "command") THEN m.Options["command"] ELSE @,
                !.entrypoint =
                    IF HasOpt(m, "entrypoint") THEN m.Options["entrypoint"] ELSE @,
                !.pullSecret =
                    IF HasOpt(m, "pullSecret") THEN m.Options["pullSecret"] ELSE @,
                !.workingDir =
                    IF HasOpt(m, "workingDir") THEN m.Options["workingDir"] ELSE @,
                !.privileged =
                    IF HasOpt(m, "privileged")
                       /\ (m.Options["privileged"] = "true"
                           \/ m.Options["privileged"] = "yes")
                    THEN TRUE ELSE @]
    IN  IF a1.entrypoint = "" THEN setDefaultEntrypoint(a1) ELSE a1

ApplicationAddon_SetOptions(a, m) == SetDefaultOptions(a, m)

DefaultOptions(a) ==
    [image |-> a.image, workingDir |-> a.workingDir,
     entrypoint |-> a.entrypoint, command |-> a.command,
     privileged |-> IF a.privileged THEN "true" ELSE "false"]

ApplicationAddon_Options(a) == DefaultOptions(a)

ApplicationAddon_MapOptions(a) ==
    [resourceLimits |->
        IF "limits" \in DOMAIN a.resources THEN a.resources["limits"] ELSE NoOptions,
     resourceRequests |->
        IF "requests" \in DOMAIN a.resources THEN a.resources["requests"] ELSE NoOptions]

----------------------------------------------------------------------------
(* HPCToolkit *)

HPCToolkit_New ==
    ApplicationAddon_New("perf-hpctoolkit") @@
    [target |-> "", containerTarget |-> "", events |-> "", mount |-> "",
     entrypointPath |-> "", volumeName |-> "", prefix |-> ""]

\* mutant: Validate forgets the events check
HPCToolkit_Validate_NoEventsCheck(a) == TRUE

HPCToolkit_Validate(a) ==
    IF a.events = "" THEN FALSE ELSE TRUE

HPCToolkit_SetOptions(a, m) ==
    LET a1 == [a EXCEPT
                !.entrypointPath = "/metrics_operator/hpctoolkit-entrypoint.sh",
                !.image = "ghcr.io/converged-computing/metric-hpctoolkit-view:latest"]
        a2 == SetDefaultOptions(a1, m)
    IN  [a2 EXCEPT
            !.volumeName = "hpctoolkit",
            !.mount = IF HasOpt(m, "mount") THEN m.Options["mount"] ELSE "/opt/share",
            !.prefix = IF HasOpt(m, "prefix") THEN m.Options["prefix"] ELSE @,
            !.workdir = IF HasOpt(m, "workdir") THEN m.Options["workdir"] ELSE @,
            !.target = IF HasOpt(m, "target") THEN m.Options["target"] ELSE @,
            !.containerTarget =
                IF HasOpt(m, "containerTarget") THEN m.Options["containerTarget"] ELSE @,
            !.events = IF HasOpt(m, "events") THEN m.Options["events"] ELSE @]

HPCToolkit_Options(a) ==
    DefaultOptions(a) @@
    [events |-> a.events, mount |-> a.mount, prefix |-> a.prefix]

\* the metadata header an addon prints first
Metadata(a) == "METADATA " \o a.Identifier

\* the pre block of customizeEntrypoint, one element per line that depends on
\* the addon or carries a marker; constant runs of lines are one element
preBlock(a) ==
    << Echo(Metadata(a)),
       "wget wait-fs; chmod +x ./wait-fs; mv ./wait-fs /usr/bin/goshare-wait-fs",
       "viewbase=" \o a.mount,
       "export PATH=$PATH:${viewbin}; goshare-wait-fs -p ${software}; sleep 10",
       "cp -R " \o a.mount \o "/software /opt/software",
       "goshare-wait-fs -p ${viewbin}/hpcrun; sleep 5; perf_event_paranoid",
       "events=" \o a.events,
       Echo(CollectionStart),
       Echo(Separator) >>
    \o (IF a.workdir # ""
        THEN << "workdir=" \o a.workdir, "cd ${workdir}" >>
        ELSE << >>)

\* mutant: the arguments of the Sprintf are swapped
wrapCommand_Swapped(a, command) == command \o " $hpcrunpath $events " \o a.prefix

\* fmt.Sprintf("%s $hpcrunpath $events %s", a.prefix, Command)
wrapCommand(a, command) == a.prefix \o " $hpcrunpath $events " \o command

\* mutant: the pre block is put in front of the Pre text
customizeContainer_Prepend(a, c, rj) ==
    IF c.JobName # rj THEN c
    ELSE
        LET c1 == [c EXCEPT !.EntrypointScript.Pre = preBlock(a) \o @] IN
        IF a.containerTarget # "" /\ c.Name # "" /\ a.containerTarget # c.Name
        THEN c1
        ELSE [c1 EXCEPT !.EntrypointScript.Command = wrapCommand(a, @)]

\* mutant: the container target is not consulted
customizeContainer_AnyContainer(a, c, rj) ==
    IF c.JobName # rj THEN c
    ELSE [c EXCEPT !.EntrypointScript.Pre = @ \o preBlock(a),
                   !.EntrypointScript.Command = wrapCommand(a, @)]

\* the body of the loop over the container specs in customizeEntrypoint
customizeContainer(a, c, rj) ==
    IF c.JobName # rj THEN c
    ELSE
        LET c1 == [c EXCEPT !.EntrypointScript.Pre = @ \o preBlock(a)] IN
        IF a.containerTarget # "" /\ c.Name # "" /\ a.containerTarget # c.Name
        THEN c1
        ELSE [c1 EXCEPT !.EntrypointScript.Command = wrapCommand(a, @)]

customizeEntrypoint(a, specs, rj) ==
    [i \in 1..Len(specs) |-> customizeContainer(a, specs[i], rj)]

\* mutant: the target is not consulted
targets_Any(a, rj) == TRUE

\* is the replicated job rj customized by the addon?
targets(a, rj) == ~(a.target # "" /\ a.target # rj)

RECURSIVE CustomizeEntrypoints(_, _, _)
CustomizeEntrypoints(a, specs, rjs) ==
    IF rjs = << >> THEN specs
    ELSE CustomizeEntrypoints(
            a,
            IF targets(a, Head(rjs)) THEN customizeEntrypoint(a, specs, Head(rjs))
            ELSE specs,
            Tail(rjs))

HPCToolkit_AssembleContainers(a) ==
    << [JobName |-> "",
        Image |-> a.image,
        Name |-> "hpctoolkit",
        EntrypointScript |->
            [Name |-> a.volumeName,
             Path |-> a.entrypointPath,
             Script |-> Base(a.entrypointPath),
             Pre |-> << "#!/bin/bash",
                        "viewroot=" \o a.mount,
                        "cp -R ${view}/* $viewroot/view; cp -R /opt/software $viewroot/",
                        "touch $viewroot/metrics-operator-done.txt",
                        "sleep infinity" >>,
             Command |-> "",
             Post |-> << >>],
        Privileged |-> a.privileged,
        NeedsWrite |-> TRUE] >>

\* mutant: the item path is the whole entrypoint path, filepath.Base forgotten
HPCToolkit_AssembleVolumes_FullPath(a) ==
    << [Name |-> a.volumeName, Source |-> "EmptyDir",
        Items |-> << >>,
        Mount |-> TRUE, ReadOnly |-> FALSE, Path |-> a.mount],
       [Name |-> "", Source |-> "ConfigMap",
        Items |-> << [Key |-> a.volumeName, Path |-> a.entrypointPath] >>,
        Mount |-> FALSE, ReadOnly |-> TRUE, Path |-> Dir(a.entrypointPath)] >>

HPCToolkit_AssembleVolumes(a) ==
    << [Name |-> a.volumeName, Source |-> "EmptyDir",
        Items |-> << >>,
        Mount |-> TRUE, ReadOnly |-> FALSE, Path |-> a.mount],
       [Name |-> "", Source |-> "ConfigMap",
        Items |-> << [Key |-> a.volumeName, Path |-> Base(a.entrypointPath)] >>,
        Mount |-> FALSE, ReadOnly |-> TRUE, Path |-> Dir(a.entrypointPath)] >>

----------------------------------------------------------------------------
(* The composition run: base assembly, addon declaration, customization *)

\* the replicated jobs of the job set: launcher and worker
ReplicatedJobs == << "l", "w" >>

\* the containers a base metric can declare: job-group, name, command
ContainerInputs ==
    { [JobName |-> "l", Name |-> "launcher", Command |-> "pennant /opt/test.pnt"],
      [JobName |-> "w", Name |-> "worker", Command |-> "sleep infinity"],
      [JobName |-> "w", Name |-> "app", Command |-> "pennant /opt/test.pnt"],
      [JobName |-> "w", Name |-> "", Command |-> "sleep infinity"] }

\* base assembly of one container: the script carries the three markers at
\* their fixed points around the command
BaseContainer(inp) ==
    [JobName |-> inp.JobName,
     Image |-> "ghcr.io/converged-computing/metric-pennant:latest",
     Name |-> inp.Name,
     EntrypointScript |->
        [Name |-> "", Path |-> "", Script |-> "",
         Pre |-> << "#!/bin/bash", Echo(Separator), Echo(CollectionStart) >>,
         Command |-> inp.Command,
         Post |-> << Echo(CollectionEnd) >>],
     Privileged |-> FALSE,
     NeedsWrite |-> FALSE]

BaseAssembly(inputs) == [i \in 1..Len(inputs) |-> BaseContainer(inputs[i])]

\* the rendered script of a container: Pre + Command + Post
Rendered(c) ==
    c.EntrypointScript.Pre \o << c.EntrypointScript.Command >>
        \o c.EntrypointScript.Post

\* option bags a tracer addon is declared with
HPCToolkitBags ==
    { [Options |-> t @@ ct @@ [events |-> "-e IO"], MapOptions |-> NoOptions] :
        t \in {NoOptions, [target |-> "w"]},
        ct \in {NoOptions, [containerTarget |-> "app"]} }
    \cup
    { [Options |-> [events |-> "-e IO", prefix |-> "mpirun -np 2"],
       MapOptions |-> NoOptions],
      [Options |-> [events |-> "-e IO", prefix |-> "mpirun -np 2",
                    containerTarget |-> "app"],
       MapOptions |-> NoOptions],
      [Options |-> [events |-> "-e IO", prefix |-> " $hpcrunpath $events "],
       MapOptions |-> NoOptions],
      [Options |-> [events |-> "-e CPUTIME", workdir |-> "/opt/pennant/test",
                    target |-> "l"],
       MapOptions |-> NoOptions],
      [Options |-> [target |-> "w", prefix |-> "mpirun -np 2"],
       MapOptions |-> NoOptions],
      [Options |-> [events |-> "", containerTarget |-> "app"],
       MapOptions |-> NoOptions] }

NoOutput == [containers |-> << >>, volumes |-> << >>]

\* the values of the variables a specification does not use
ComposeIdle ==
    /\ base = << >> /\ decl = << >> /\ cs = << >> /\ vols = << >>
    /\ addons = << >> /\ next = 1 /\ out = NoOutput

OptionsIdle ==
    /\ kind = "" /\ inst = NoOptions /\ bag = NoOptions /\ nset = 0
    /\ copy = NoOptions /\ assembled = << >>

\* no config map in the cluster, nothing returned
NoConfigMap == [Name |-> "", Data |-> NoOptions]
NotCalled == [cm |-> NoConfigMap, err |-> FALSE]

ReconcileIdle == cluster = NoConfigMap /\ ret = NotCalled /\ ncalls = 0

RunsIdle == sets = NoOptions /\ runs = << >> /\ ReconcileIdle

PodsIdle == mset = NoOptions /\ insts = << >> /\ pods = << >> /\ entrypoints = << >>

InitCompose ==
    /\ pc = "declaring"
    /\ base \in {BaseAssembly(inputs) :
                    inputs \in SeqsUpTo(ContainerInputs, MaxContainers)}
    /\ decl = << >>
    /\ cs = base
    /\ vols = << >>
    /\ addons = << >>
    /\ next = 1
    /\ out = NoOutput
    /\ OptionsIdle /\ RunsIdle /\ PodsIdle

\* the next addon of the declaration is resolved, configured and validated.
\* Valid: its own container and volumes join the output of phase 1.
\* Invalid: the run aborts and returns nothing.
Declare(m) ==
    /\ pc = "declaring"
    /\ Len(decl) < MaxAddons
    /\ decl' = Append(decl, m)
    /\ LET a == HPCToolkit_SetOptions(HPCToolkit_New, m) IN
        IF HPCToolkit_Validate(a)
        THEN /\ addons' = Append(addons, a)
             /\ cs' = cs \o HPCToolkit_AssembleContainers(a)
             /\ vols' = vols \o HPCToolkit_AssembleVolumes(a)
             /\ UNCHANGED <<pc, out>>
        ELSE /\ pc' = "aborted"
             /\ out' = NoOutput
             /\ UNCHANGED <<cs, vols, addons>>
    /\ UNCHANGED <<base, next, optionVars, runVars, podVars>>

StartCustomize ==
    /\ pc = "declaring"
    /\ pc' = "customizing"
    /\ UNCHANGED <<composeVars, optionVars, runVars, podVars>>

\* phase 2: the next declared addon customizes the whole container set
Customize ==
    /\ pc = "customizing"
    /\ next <= Len(addons)
    /\ cs' = CustomizeEntrypoints(addons[next], cs, ReplicatedJobs)
    /\ next' = next + 1
    /\ UNCHANGED <<pc, base, decl, vols, addons, out, optionVars, runVars, podVars>>

Finish ==
    /\ pc = "customizing"
    /\ next > Len(addons)
    /\ pc' = "done"
    /\ out' = [containers |-> cs, volumes |-> vols]
    /\ UNCHANGED <<base, decl, cs, vols, addons, next, optionVars, runVars, podVars>>

NextCompose ==
    \/ \E m \in HPCToolkitBags : Declare(m)
    \/ StartCustomize
    \/ Customize
    \/ Finish

Spec == InitCompose /\ [][NextCompose]_vars

----------------------------------------------------------------------------
(* Properties of the composition run *)

JobGroups == {ReplicatedJobs[k] : k \in 1..Len(ReplicatedJobs)}

\* the step in which addons[next] customizes the container set
CustomizeStep == pc = "customizing" /\ next' = next + 1

\* the containers of base assembly keep their index in cs
BaseIndex == 1..Len(base)

Pre(c) == c.EntrypointScript.Pre
Command(c) == c.EntrypointScript.Command

\* the job-group of container c is one the addon a is restricted to
InTargetedGroup(a, c) ==
    c.JobName \in JobGroups /\ (a.target = "" \/ a.target = c.JobName)

Contains(str, sub) ==
    \E i \in 1..(Len(str) - Len(sub) + 1) : SubSeq(str, i, i + Len(sub) - 1) = sub

MarkersOnceInOrder(script) ==
    /\ Count(script, Echo(Separator)) = 1
    /\ Count(script, Echo(CollectionStart)) = 1
    /\ Count(script, Echo(CollectionEnd)) = 1
    /\ \A i \in Positions(script, Echo(Separator)),
          j \in Positions(script, Echo(CollectionStart)),
          k \in Positions(script, Echo(CollectionEnd)) : i < j /\ j < k

\* C1 (as claimed): in the script of every container of the metrics, after
\* base assembly and any number of addon customizations, each of the three
\* markers appears exactly once, CollectionStart after Separator and before
\* CollectionEnd.
C1_MarkerInvariant ==
    \A i \in BaseIndex : MarkersOnceInOrder(Rendered(cs[i]))

\* C2: an addon with a non-empty target leaves every container spec of another
\* job-group unchanged, in all its fields; an addon with an empty target
\* customizes the containers of every job-group passed in.
C2_TargetScoping ==
    [][CustomizeStep =>
        LET a == addons[next] IN
        /\ Len(cs') = Len(cs)
        /\ a.target # "" =>
             \A i \in 1..Len(cs) : cs[i].JobName # a.target => cs'[i] = cs[i]
        /\ a.target = "" =>
             \A i \in 1..Len(cs) : cs[i].JobName \in JobGroups => cs'[i] # cs[i]
      ]_vars

C2_Witness ==
    /\ pc = "customizing" /\ next = 2
    /\ addons[1].target = "w"
    /\ \E i, j \in BaseIndex :
        /\ cs[i].JobName = "l" /\ cs[i] = base[i]
        /\ cs[j].JobName = "w" /\ cs[j] # base[j]

\* C3 (as claimed): with a non-empty containerTarget N the Command of every
\* container not named N, an unnamed one included, is left unchanged, the
\* Command of the containers named N in the targeted job-groups is rewritten,
\* and the pre block is appended to every container of the targeted job-groups.
C3_ContainerTargetClaim ==
    [][CustomizeStep /\ addons[next].containerTarget # "" =>
        LET a == addons[next] IN
        \A i \in 1..Len(cs) :
            /\ cs[i].Name # a.containerTarget => Command(cs'[i]) = Command(cs[i])
            /\ InTargetedGroup(a, cs[i]) =>
                /\ Pre(cs'[i]) = Pre(cs[i]) \o preBlock(a)
                /\ cs[i].Name = a.containerTarget =>
                     Command(cs'[i]) # Command(cs[i])
      ]_vars

\* C3 (amended): with a non-empty containerTarget N the Command of every
\* container with a non-empty name other than N is left unchanged; in the
\* targeted job-groups the Command of the containers named N and of the
\* unnamed containers is rewritten, and the pre block is appended to every
\* container.
C3_ContainerTargetScoping ==
    [][CustomizeStep /\ addons[next].containerTarget # "" =>
        LET a == addons[next] IN
        \A i \in 1..Len(cs) :
            /\ (cs[i].Name # a.containerTarget /\ cs[i].Name # "") =>
                 Command(cs'[i]) = Command(cs[i])
            /\ ~InTargetedGroup(a, cs[i]) => cs'[i] = cs[i]
            /\ InTargetedGroup(a, cs[i]) =>
                /\ Pre(cs'[i]) = Pre(cs[i]) \o preBlock(a)
                /\ (cs[i].Name = a.containerTarget \/ cs[i].Name = "") =>
                     Command(cs'[i]) # Command(cs[i])
      ]_vars

C3_Witness ==
    /\ pc = "customizing" /\ next = 2
    /\ addons[1].containerTarget = "app"
    /\ \E i, j \in BaseIndex :
        /\ cs[i].JobName = cs[j].JobName
        /\ cs[i].Name = "app" /\ Command(cs[i]) # Command(base[i])
        /\ cs[j].Name = "worker" /\ Command(cs[j]) = Command(base[j])
        /\ Pre(cs[j]) = Pre(base[j]) \o preBlock(addons[1])

\* C4: the Pre text of a container before any step is a prefix of its Pre text
\* after the step, a customization adds nothing but the addon's pre block at
\* the end, and so the Pre of a container two addons target is the base Pre,
\* then the first declared addon's block, then the second's.
C4_PreAppendOnly ==
    [][/\ \A i \in 1..Len(cs) :
            i <= Len(cs') /\ IsPrefix(Pre(cs[i]), Pre(cs'[i]))
       /\ CustomizeStep =>
            \A i \in BaseIndex :
                /\ Pre(cs'[i]) \in {Pre(cs[i]), Pre(cs[i]) \o preBlock(addons[next])}
                /\ (next = 2 /\ InTargetedGroup(addons[1], cs[i])
                             /\ InTargetedGroup(addons[2], cs[i])) =>
                     Pre(cs'[i]) = Pre(base[i]) \o preBlock(addons[1])
                                                \o preBlock(addons[2])
      ]_vars

C4_Witness ==
    /\ pc = "customizing" /\ next = 3
    /\ preBlock(addons[1]) # preBlock(addons[2])
    /\ \E i \in BaseIndex :
        Pre(cs[i]) = Pre(base[i]) \o preBlock(addons[1]) \o preBlock(addons[2])

\* the addon a rewrites the Command of container c
Rewrites(a, c) ==
    /\ InTargetedGroup(a, c)
    /\ (a.containerTarget = "" \/ c.Name = "" \/ a.containerTarget = c.Name)

HpcRun == " $hpcrunpath $events "

\* the Command of the i-th container after two addons rewrote it in the
\* order first, second
Nested(first, second, i) ==
    second.prefix \o HpcRun \o first.prefix \o HpcRun \o Command(base[i])

\* every rewrite keeps the Command it found as the tail of the new one, and
\* the later declared addon's wrapper is the outer one
WrapsInDeclaredOrder ==
    \A i \in BaseIndex :
        /\ (pc = "customizing" /\ next = 2 /\ Rewrites(addons[1], base[i])) =>
             Command(cs[i]) = addons[1].prefix \o HpcRun \o Command(base[i])
        /\ (pc = "customizing" /\ next = 3 /\ Rewrites(addons[1], base[i])
                                           /\ Rewrites(addons[2], base[i])) =>
             Command(cs[i]) = Nested(addons[1], addons[2], i)

BothRewrote(i) ==
    /\ pc = "customizing" /\ next = 3
    /\ Rewrites(addons[1], base[i]) /\ Rewrites(addons[2], base[i])

\* C5 (as claimed): wrapping composes in declared order, and the two orders of
\* two addons give different Commands whenever their wrappers differ.
C5_OrderObservableClaim ==
    /\ WrapsInDeclaredOrder
    /\ \A i \in BaseIndex :
        (BothRewrote(i) /\ addons[1].prefix # addons[2].prefix) =>
            Command(cs[i]) # Nested(addons[2], addons[1], i)

\* C5 (amended): wrapping composes in declared order, and the two orders of
\* two addons give different Commands whenever their prefixes differ and
\* neither prefix contains the text "$hpcrunpath" of the wrapper itself.
C5_OrderObservable ==
    /\ WrapsInDeclaredOrder
    /\ \A i \in BaseIndex :
        (/\ BothRewrote(i)
         /\ addons[1].prefix # addons[2].prefix
         /\ ~Contains(addons[1].prefix, "$hpcrunpath")
         /\ ~Contains(addons[2].prefix, "$hpcrunpath")) =>
            Command(cs[i]) # Nested(addons[2], addons[1], i)

C5_Witness ==
    \E i \in BaseIndex :
        /\ BothRewrote(i)
        /\ addons[1].prefix = "mpirun -np 2" /\ addons[2].prefix = ""
        /\ Command(cs[i]) = HpcRun \o "mpirun -np 2" \o HpcRun \o Command(base[i])

\* C6: a tracer addon declared without the 'events' option fails Validate,
\* and a run in which a declared plugin fails Validate is aborted and returns
\* no container spec and no volume spec; what a run returns comes from valid
\* declarations only.
C6_FailFast ==
    /\ (\E k \in 1..Len(decl) : ~HasOpt(decl[k], "events")) => pc = "aborted"
    /\ pc = "aborted" => out.containers = << >> /\ out.volumes = << >>
    /\ out # NoOutput =>
        \A k \in 1..Len(decl) : HasOpt(decl[k], "events") /\ decl[k].Options["events"] # ""

C6_Witness ==
    /\ pc = "aborted"
    /\ Len(addons) >= 1 /\ Len(cs) > Len(base) /\ vols # << >>
    /\ ~HasOpt(decl[Len(decl)], "events")
    /\ out = NoOutput

\* the volumes the k-th declared addon returned from AssembleVolumes
VolumesOf(k) == {vols[2 * k - 1], vols[2 * k]}

\* the volume v carries the script of container c: a config map volume with
\* an item keyed by the script's name, at the script's path, read-only
CarriesScriptOf(v, c) ==
    /\ v.Source = "ConfigMap"
    /\ v.ReadOnly
    /\ v.Path = Dir(c.EntrypointScript.Path)
    /\ \E n \in 1..Len(v.Items) :
        /\ v.Items[n].Key = c.EntrypointScript.Name
        /\ v.Items[n].Path = Base(c.EntrypointScript.Path)

\* C12: every container spec with NeedsWrite set is the container of a
\* declared addon, and the volumes the same addon returned hold a read-only
\* config map volume with an item whose key is the container's
\* EntrypointScript.Name and whose path is the base name of
\* EntrypointScript.Path, mounted at the directory of EntrypointScript.Path.
C12_ExternalPersistence ==
    /\ Len(cs) = Len(base) + Len(addons)
    /\ Len(vols) = 2 * Len(addons)
    /\ \A k \in 1..Len(addons) : cs[Len(base) + k].NeedsWrite
    /\ \A i \in 1..Len(cs) :
        cs[i].NeedsWrite =>
            /\ i > Len(base)
            /\ \E v \in VolumesOf(i - Len(base)) : CarriesScriptOf(v, cs[i])

C12_Witness ==
    /\ pc = "done"
    /\ \E i \in 1..Len(out.containers), j \in 1..Len(out.volumes) :
        /\ out.containers[i].NeedsWrite
        /\ out.containers[i].EntrypointScript.Name = "hpctoolkit"
        /\ out.containers[i].EntrypointScript.Path
              = "/metrics_operator/hpctoolkit-entrypoint.sh"
        /\ out.volumes[j].Items
              = << [Key |-> "hpctoolkit", Path |-> "hpctoolkit-entrypoint.sh"] >>
        /\ out.volumes[j].Path = "/metrics_operator"
        /\ out.volumes[j].ReadOnly

----------------------------------------------------------------------------
(* Volume addons: VolumeBase and ConfigMapVolume *)

\* ConfigMapVolume embeds VolumeBase and declares name and path again: the
\* selectors v.name and v.path of a ConfigMapVolume are its own fields, while
\* the methods of VolumeBase read and write the embedded ones
ConfigMapVolume_New ==
    [VolumeBase |-> [Identifier |-> "volume-cm", readOnly |-> FALSE,
                     name |-> "", path |-> ""],
     configMapName |-> "", name |-> "", path |-> "", items |-> NoOptions]

DefaultValidate(vb) ==
    IF vb.name = "" THEN FALSE
    ELSE IF vb.path = "" THEN FALSE
    ELSE TRUE

DefaultSetOptions(vb, m) ==
    [vb EXCEPT
        !.name = IF HasOpt(m, "name") THEN m.Options["name"] ELSE @,
        !.path = IF HasOpt(m, "path") THEN m.Options["path"] ELSE @,
        !.readOnly =
            IF HasOpt(m, "readOnly")
               /\ (m.Options["readOnly"] = "yes" \/ m.Options["readOnly"] = "true")
            THEN TRUE ELSE @]

ConfigMapVolume_Validate(v) ==
    IF v.configMapName = "" THEN FALSE
    ELSE IF DOMAIN v.items = {} THEN FALSE
    ELSE DefaultValidate(v.VolumeBase)

ConfigMapVolume_SetOptions(v, m) ==
    [v EXCEPT
        !.items = IF HasMapOpt(m, "items") THEN m.MapOptions["items"] ELSE NoOptions,
        !.configMapName =
            IF HasOpt(m, "configMapName") THEN m.Options["configMapName"] ELSE @,
        !.VolumeBase = DefaultSetOptions(@, m)]

ConfigMapVolume_Options(v) ==
    [path |-> v.path, name |-> v.name, configMapName |-> v.configMapName]

ConfigMapVolume_MapOptions(v) == [items |-> v.items]

\* the orders in which a range loop can visit the keys of a Go map
IterationOrders(keys) ==
    {o \in SeqOfLen(keys, Cardinality(keys)) :
        \A k \in keys : \E i \in 1..Len(o) : o[i] = k}

\* AssembleVolumes when the range over v.items visits the keys in this order
ConfigMapVolume_AssembleVolumes(v, order) ==
    << [Name |-> v.name, Source |-> "ConfigMap",
        ConfigMapName |-> v.configMapName,
        Items |-> [i \in 1..Len(order) |->
                    [Key |-> order[i], Path |-> v.items[order[i]]]],
        Mount |-> TRUE, ReadOnly |-> TRUE, Path |-> Dir(v.path)] >>

\* everything AssembleVolumes can return for the instance
ConfigMapVolume_Assembled(v) ==
    {ConfigMapVolume_AssembleVolumes(v, o) : o \in IterationOrders(DOMAIN v.items)}

----------------------------------------------------------------------------
(* Volume addons: PersistentVolumeClaim, SecretVolume, HostPathVolume and
   EmptyVolume.  Each embeds VolumeBase and declares name and path again. *)

VolumeBase_New(id) == [Identifier |-> id, readOnly |-> FALSE, name |-> "", path |-> ""]

PersistentVolumeClaim_New ==
    [VolumeBase |-> VolumeBase_New("volume-pvc"),
     name |-> "", claimName |-> "", path |-> ""]

PersistentVolumeClaim_Validate(v) ==
    IF v.claimName = "" THEN FALSE ELSE DefaultValidate(v.VolumeBase)

PersistentVolumeClaim_SetOptions(v, m) ==
    [v EXCEPT
        !.claimName = IF HasOpt(m, "claimName") THEN m.Options["claimName"] ELSE @,
        !.VolumeBase = DefaultSetOptions(@, m)]

PersistentVolumeClaim_AssembleVolumes(v) ==
    << [Name |-> v.name, Source |-> "PersistentVolumeClaim",
        ClaimName |-> v.claimName,
        Mount |-> TRUE, ReadOnly |-> v.VolumeBase.readOnly, Path |-> Dir(v.path)] >>

SecretVolume_New ==
    [VolumeBase |-> VolumeBase_New("volume-secret"),
     secretName |-> "", name |-> "", path |-> ""]

SecretVolume_Validate(v) ==
    IF v.secretName = "" THEN FALSE ELSE DefaultValidate(v.VolumeBase)

SecretVolume_SetOptions(v, m) ==
    [v EXCEPT
        !.secretName = IF HasOpt(m, "secretName") THEN m.Options["secretName"] ELSE @,
        !.VolumeBase = DefaultSetOptions(@, m)]

SecretVolume_AssembleVolumes(v) ==
    << [Name |-> v.name, Source |-> "Secret",
        SecretName |-> v.secretName,
        Mount |-> TRUE, ReadOnly |-> v.VolumeBase.readOnly, Path |-> v.path] >>

HostPathVolume_New ==
    [VolumeBase |-> VolumeBase_New("volume-hostpath"),
     hostPath |-> "", path |-> "", name |-> ""]

HostPathVolume_Validate(v) ==
    IF v.hostPath = "" THEN FALSE ELSE DefaultValidate(v.VolumeBase)

\* SetOptions assigns the fields of HostPathVolume; DefaultSetOptions is not
\* called
HostPathVolume_SetOptions(v, m) ==
    [v EXCEPT
        !.hostPath = IF HasOpt(m, "hostPath") THEN m.Options["hostPath"] ELSE @,
        !.path = IF HasOpt(m, "path") THEN m.Options["path"] ELSE @,
        !.name = IF HasOpt(m, "name") THEN m.Options["name"] ELSE @]

HostPathVolume_AssembleVolumes(v) ==
    << [Name |-> v.name, Source |-> "HostPath",
        HostPath |-> v.hostPath,
        Mount |-> TRUE, ReadOnly |-> v.VolumeBase.readOnly, Path |-> v.path] >>

EmptyVolume_New ==
    [VolumeBase |-> VolumeBase_New("volume-empty"), name |-> "", path |-> ""]

EmptyVolume_Validate(v) ==
    IF v.name = "" THEN FALSE ELSE DefaultValidate(v.VolumeBase)

EmptyVolume_SetOptions(v, m) ==
    [v EXCEPT !.name = IF HasOpt(m, "name") THEN m.Options["name"] ELSE @]

EmptyVolume_AssembleVolumes(v) ==
    << [Name |-> v.name, Source |-> "EmptyDir",
        Mount |-> TRUE, ReadOnly |-> v.VolumeBase.readOnly, Path |-> v.path] >>

----------------------------------------------------------------------------
(* Option parsing and export of one plugin instance *)

Kinds == {"perf-hpctoolkit", "application", "volume-cm"}

New(k) ==
    CASE k = "perf-hpctoolkit" -> HPCToolkit_New
      [] k = "application" -> ApplicationAddon_New("application")
      [] k = "volume-cm" -> ConfigMapVolume_New

PluginSetOptions(k, x, m) ==
    CASE k = "perf-hpctoolkit" -> HPCToolkit_SetOptions(x, m)
      [] k = "application" -> ApplicationAddon_SetOptions(x, m)
      [] k = "volume-cm" -> ConfigMapVolume_SetOptions(x, m)

PluginValidate(k, x) ==
    CASE k = "perf-hpctoolkit" -> HPCToolkit_Validate(x)
      [] k = "application" -> ApplicationAddon_Validate(x)
      [] k = "volume-cm" -> ConfigMapVolume_Validate(x)

\* the bag a plugin exports: Options() and, where the type has it, MapOptions()
Exported(k, x) ==
    CASE k = "perf-hpctoolkit" ->
            [Options |-> HPCToolkit_Options(x),
             MapOptions |-> ApplicationAddon_MapOptions(x)]
      [] k = "application" ->
            [Options |-> ApplicationAddon_Options(x),
             MapOptions |-> ApplicationAddon_MapOptions(x)]
      [] k = "volume-cm" ->
            [Options |-> ConfigMapVolume_Options(x),
             MapOptions |-> ConfigMapVolume_MapOptions(x)]

ApplicationBags ==
    { [Options |-> i @@ c @@ p, MapOptions |-> r] :
        i \in {NoOptions, [image |-> "ghcr.io/example/app:latest"]},
        c \in {NoOptions, [command |-> "lmp -in in.reaxff"]},
        p \in {NoOptions, [privileged |-> "true"], [privileged |-> "no"]},
        r \in {NoOptions, [resourceLimits |-> [cpu |-> "2"]]} }
    \cup
    { [Options |-> [image |-> "ghcr.io/example/app:latest",
                    command |-> "lmp -in in.reaxff",
                    pullSecret |-> "regcred", colour |-> "blue"],
       MapOptions |-> NoOptions] }

ConfigMapBags ==
    { [Options |-> n @@ q @@ c @@ r, MapOptions |-> i] :
        n \in {NoOptions, [name |-> "scripts"]},
        q \in {NoOptions, [path |-> "/etc/app/run.sh"]},
        c \in {NoOptions, [configMapName |-> "my-config"]},
        r \in {NoOptions, [readOnly |-> "yes"]},
        i \in {NoOptions, [items |-> [a |-> "run.sh"]],
               [items |-> [a |-> "run.sh", b |-> "conf.yaml"]]} }

Bags(k) ==
    CASE k = "perf-hpctoolkit" ->
            HPCToolkitBags \cup
            { [Options |-> [events |-> "-e IO", privileged |-> "yes",
                            command |-> "lmp", colour |-> "blue"],
               MapOptions |-> [resourceLimits |-> [cpu |-> "2"]]] }
      [] k = "application" -> ApplicationBags
      [] k = "volume-cm" -> ConfigMapBags

InitOptions ==
    /\ pc = "options"
    /\ kind \in Kinds
    /\ inst = New(kind)
    /\ bag = NoOptions
    /\ nset = 0
    /\ copy = NoOptions
    /\ assembled = << >>
    /\ ComposeIdle /\ RunsIdle /\ PodsIdle

\* SetOptions on the instance, which may have been configured before
SetOptions(m) ==
    /\ pc = "options"
    /\ nset < MaxSetOptions
    /\ inst' = PluginSetOptions(kind, inst, m)
    /\ bag' = m
    /\ nset' = nset + 1
    /\ UNCHANGED <<pc, kind, copy, assembled, composeVars, runVars, podVars>>

\* the options the instance exports configure a fresh instance
RoundTrip ==
    /\ pc = "options"
    /\ nset >= 1
    /\ copy' = PluginSetOptions(kind, New(kind), Exported(kind, inst))
    /\ pc' = "exported"
    /\ UNCHANGED <<kind, inst, bag, nset, assembled, composeVars, runVars, podVars>>

NextOptions ==
    \/ \E m \in Bags(kind) : SetOptions(m)
    \/ RoundTrip

SpecOptions == InitOptions /\ [][NextOptions]_vars

\* the probes on which the customization of two tracer addons is compared
Probes == {BaseAssembly(inputs) : inputs \in SeqsUpTo(ContainerInputs, 1)}

\* two instances of a plugin type behave alike
Equivalent(k, x, y) ==
    /\ PluginValidate(k, x) = PluginValidate(k, y)
    /\ k = "perf-hpctoolkit" =>
        /\ HPCToolkit_AssembleContainers(x) = HPCToolkit_AssembleContainers(y)
        /\ HPCToolkit_AssembleVolumes(x) = HPCToolkit_AssembleVolumes(y)
        /\ \A probe \in Probes :
            CustomizeEntrypoints(x, probe, ReplicatedJobs)
                = CustomizeEntrypoints(y, probe, ReplicatedJobs)
    /\ k = "application" =>
        /\ x.image = y.image /\ x.command = y.command
        /\ x.workingDir = y.workingDir /\ x.entrypoint = y.entrypoint
        /\ x.privileged = y.privileged /\ x.pullSecret = y.pullSecret
        /\ ApplicationAddon_MapOptions(x) = ApplicationAddon_MapOptions(y)
    /\ k = "volume-cm" =>
        /\ ConfigMapVolume_Assembled(x) = ConfigMapVolume_Assembled(y)
        /\ x.VolumeBase = y.VolumeBase

\* C7 (as claimed): a fresh instance configured from the options a valid
\* instance exports validates like it and assembles and customizes like it.
C7_OptionRoundTrip ==
    (pc = "exported" /\ PluginValidate(kind, inst)) => Equivalent(kind, inst, copy)

\* the keys a plugin type reads
KnownKeys(k) ==
    CASE k = "perf-hpctoolkit" ->
            {"image", "command", "entrypoint", "pullSecret", "workingDir",
             "privileged", "mount", "prefix", "workdir", "target",
             "containerTarget", "events"}
      [] k = "application" ->
            {"image", "command", "entrypoint", "pullSecret", "workingDir",
             "privileged"}
      [] k = "volume-cm" -> {"configMapName", "name", "path", "readOnly"}

WithoutUnknown(k, m) ==
    [m EXCEPT !.Options = [key \in DOMAIN m.Options \cap KnownKeys(k) |-> m.Options[key]]]

\* C9 (as claimed): the configuration after SetOptions(o) is that of a fresh
\* instance given o, whatever ran on the instance before; a second
\* SetOptions(o) changes nothing; unknown keys change nothing.
C9_PureTotal ==
    (pc = "options" /\ nset >= 1) =>
        /\ inst = PluginSetOptions(kind, New(kind), bag)
        /\ PluginSetOptions(kind, inst, bag) = inst
        /\ inst = PluginSetOptions(kind, inst, WithoutUnknown(kind, bag))

\* the plugin types that are application addons: ApplicationAddon and the
\* types that embed it
ApplicationKinds == {"application", "perf-hpctoolkit"}

\* C13 (as claimed): after SetOptions, Validate of an application addon
\* returns false whenever the image is empty or the command is empty.
C13_RequiresImageAndCommand ==
    (pc = "options" /\ nset >= 1 /\ kind \in ApplicationKinds) =>
        ((inst.image = "" \/ inst.command = "") => ~PluginValidate(kind, inst))

----------------------------------------------------------------------------
(* Two runs on one input: volume assembly and the config map data *)

\* key = es.Name, or "entrypoint-<count>" for an unnamed script
ScriptKey(es, count) ==
    IF es.Name = "" THEN "entrypoint-" \o ToString(count) ELSE es.Name

\* the inner loop of ensureConfigMaps: data[key] = es.Script
RECURSIVE StoreScripts(_, _, _)
StoreScripts(data, scripts, count) ==
    IF scripts = << >> THEN data
    ELSE StoreScripts(
            (ScriptKey(Head(scripts), count) :> Head(scripts).Script) @@ data,
            Tail(scripts), count)

\* the outer loop of ensureConfigMaps when the range over the map of metric
\* sets visits them in this order; count goes up by one per set
RECURSIVE BuildData(_, _, _, _)
BuildData(data, ss, order, count) ==
    IF order = << >> THEN data
    ELSE BuildData(StoreScripts(data, ss[Head(order)], count), ss,
                   Tail(order), count + 1)

SetNames == {"application", "storage"}

ScriptInputs ==
    { [Name |-> "", Script |-> "#!/bin/bash pidstat"],
      [Name |-> "", Script |-> "#!/bin/bash fio"],
      [Name |-> "custom", Script |-> "#!/bin/bash custom"] }

SetInputs ==
    UNION { [D -> SeqsUpTo(ScriptInputs, MaxScripts)] : D \in (SUBSET SetNames) \ {{}} }

NotRun == [done |-> FALSE, volumes |-> << >>, data |-> NoOptions]

InitRuns ==
    /\ pc = "runs"
    /\ kind = "volume-cm"
    /\ bag \in ConfigMapBags
    /\ inst = ConfigMapVolume_SetOptions(ConfigMapVolume_New, bag)
    /\ ConfigMapVolume_Validate(inst)
    /\ nset = 1
    /\ copy = NoOptions
    /\ assembled = << >>
    /\ sets \in SetInputs
    /\ runs = [r \in {1, 2} |-> NotRun]
    /\ ReconcileIdle
    /\ ComposeIdle /\ PodsIdle

\* one run: the volumes of the config map addon are assembled and the scripts
\* of the metric sets are keyed; each range over a map visits it in some order
Run(r) ==
    /\ pc = "runs"
    /\ ~runs[r].done
    /\ \E o1 \in IterationOrders(DOMAIN inst.items),
          o2 \in IterationOrders(DOMAIN sets) :
        runs' = [runs EXCEPT ![r] =
                    [done |-> TRUE,
                     volumes |-> ConfigMapVolume_AssembleVolumes(inst, o1),
                     data |-> BuildData(NoOptions, sets, o2, 0)]]
    /\ UNCHANGED <<pc, sets, cluster, ret, ncalls, composeVars, optionVars, podVars>>

NextRuns == \E r \in {1, 2} : Run(r)

SpecRuns == InitRuns /\ [][NextRuns]_vars

\* C8 (as claimed): two runs on the same input return the same volumes, the
\* config map items in the same order, and the same script under every key.
C8_Determinism ==
    (pc = "runs" /\ runs[1].done /\ runs[2].done) => runs[1] = runs[2]

----------------------------------------------------------------------------
(* The reconciler: ensureConfigMaps and getConfigMap *)

\* Name of the MetricSet: the name of its config map
MetricSetName == "metricset-sample"

\* getConfigMap: the config map is built and r.Create is called, which
\* succeeds (ok) or fails
getConfigMap(name, data, ok) ==
    [cm |-> [Name |-> name, Data |-> data], err |-> ~ok]

\* the metric sets of a reconcile; a script may be named like a generated key
ReconcileInputs ==
    LET Scripts == ScriptInputs \cup
                    { [Name |-> "entrypoint-0", Script |-> "#!/bin/bash netmark"] }
    IN  UNION { [D -> SeqsUpTo(Scripts, MaxScripts)] :
                    D \in (SUBSET SetNames) \ {{}} }

InitReconcile ==
    /\ pc = "reconcile"
    /\ sets \in ReconcileInputs
    /\ runs = << >>
    /\ ReconcileIdle
    /\ ComposeIdle /\ OptionsIdle /\ PodsIdle

\* one call of ensureConfigMaps.  r.Get finds the config map of the set or
\* fails; when it fails the data is built, getConfigMap creates the config
\* map, and the call returns `existing`, the object r.Get did not fill
ensureConfigMaps ==
    /\ pc = "reconcile"
    /\ ncalls < MaxReconciles
    /\ ncalls' = ncalls + 1
    /\ IF cluster # NoConfigMap
       THEN /\ ret' = [cm |-> cluster, err |-> FALSE]
            /\ UNCHANGED cluster
       ELSE \E order \in IterationOrders(DOMAIN sets), ok \in BOOLEAN :
                LET data == BuildData(NoOptions, sets, order, 0)
                    got == getConfigMap(MetricSetName, data, ok)
                IN  /\ cluster' = IF ok THEN got.cm ELSE cluster
                    /\ ret' = [cm |-> NoConfigMap, err |-> got.err]
    /\ UNCHANGED <<pc, sets, runs, composeVars, optionVars, podVars>>

NextReconcile == ensureConfigMaps

SpecReconcile == InitReconcile /\ [][NextReconcile]_vars

\* C15 (as claimed): a call that finds the config map leaves it as it is and
\* returns it; the call that creates it returns the created config map, the
\* one holding the script data, and no error; a call whose creation fails
\* returns the error.
C15_ImmutableArtifact ==
    [][ncalls' = ncalls + 1 =>
        /\ (cluster # NoConfigMap) =>
                (cluster' = cluster /\ ret' = [cm |-> cluster, err |-> FALSE])
        /\ (cluster = NoConfigMap /\ cluster' # NoConfigMap) =>
                (ret'.cm = cluster' /\ ~ret'.err /\ DOMAIN ret'.cm.Data # {})
        /\ (cluster = NoConfigMap /\ cluster' = NoConfigMap) => ret'.err
      ]_vars

\* the entrypoint scripts of all metric sets: set name and index
AllScripts == UNION { {<<n, i>> : i \in 1..Len(sets[n])} : n \in DOMAIN sets }

ScriptName(p) == sets[p[1]][p[2]].Name

\* no two scripts carry the same explicit name
NamesDistinct ==
    \A p, q \in AllScripts :
        (ScriptName(p) # "" /\ ScriptName(p) = ScriptName(q)) => p = q

\* C18 (as claimed): every entrypoint script of every metric set is stored
\* under a key of its own: the created config map has as many keys as there
\* are entrypoint scripts.
C18_NoScriptLost ==
    (cluster # NoConfigMap /\ NamesDistinct) =>
        Cardinality(DOMAIN cluster.Data) = Cardinality(AllScripts)

----------------------------------------------------------------------------
(* The containers of a MetricSet: getContainers and GetContainers *)

\* the PidStat struct of perf/sysstat.go with the field values of init()
PidStat(rate) ==
    [name |-> "perf-sysstat", rate |-> rate,
     description |-> "statistics for Linux tasks (processes) : I/O, CPU, memory, etc.",
     container |-> "ghcr.io/converged-computing/benchmark-sysstat:latest",
     requiresApplication |-> TRUE]

PidStat_Name(m) == m.name
PidStat_Image(m) == m.container
PidStat_WorkingDir(m) == ""
PidStat_RequiresApplication(m) == m.requiresApplication

\* the instance init() registers: rate is left at its zero value
PidStat_Registered == PidStat(0)

\* SetOptions has a value receiver: m.rate = metric.Rate assigns to the copy
\* of the call, the instance the caller holds is what it was
PidStat_SetOptions(m, metric) == m

\* fmt.Sprintf(template, set.Spec.Application.Command, m.rate); the lines of
\* the template between the two verbs are one element
PidStat_EntrypointScript(m, set) ==
    << "#!/bin/bash",
       "wget https://github.com/converged-computing/goshare/releases/download/2023-07-27/wait",
       "echo \"Waiting for application PID...\"",
       "pid=$(wait -c \"" \o set.application.command \o "\" -q)",
       "i=0; while true; do pidstat -p ${pid} -u -d -R -h; pidstat -p 30 -r -s -t -v -w -h",
       "sleep " \o ToString(m.rate),
       "let i=i+1",
       "done" >>

NoApplication == [image |-> "", command |-> "", entrypoint |-> ""]

HasApplication(set) == set.application # NoApplication

\* no volumes are declared in the metric sets of the model
getVolumeMounts(set) == << >>

GetContainers(set, specs, allowPtrace) ==
    [i \in 1..Len(specs) |->
        [Name |-> specs[i].Name,
         Image |-> specs[i].Image,
         ImagePullPolicy |-> "IfNotPresent",
         VolumeMounts |-> getVolumeMounts(set),
         Stdin |-> TRUE, TTY |-> TRUE,
         Command |-> specs[i].Command,
         Capabilities |-> IF allowPtrace THEN {"SYS_PTRACE"} ELSE {},
         WorkingDir |-> specs[i].WorkingDir]]
    \o (IF HasApplication(set)
        THEN << [Name |-> "app",
                 Image |-> set.application.image,
                 ImagePullPolicy |-> "IfNotPresent",
                 VolumeMounts |-> << >>,
                 Stdin |-> TRUE, TTY |-> TRUE,
                 Command |-> << "/bin/bash", "-c", set.application.entrypoint >>,
                 Capabilities |-> {},
                 WorkingDir |-> ""] >>
        ELSE << >>)

getContainers(set, metrics) ==
    GetContainers(
        set,
        [i \in 1..Len(metrics) |->
            [Command |-> << "/bin/bash",
                            "/metrics_operator/entrypoint-" \o ToString(i - 1) \o ".sh" >>,
             Image |-> PidStat_Image(metrics[i]),
             WorkingDir |-> PidStat_WorkingDir(metrics[i]),
             Name |-> PidStat_Name(metrics[i])]],
        FALSE)

ApplicationInputs ==
    {NoApplication} \cup
    { [image |-> "ghcr.io/example/lammps:latest", command |-> c, entrypoint |-> e] :
        c \in {"lmp", "mpirun lmp"}, e \in {"lmp -in in.reaxff", "/entry.sh"} }

\* the declarations of the metric in a MetricSet: api.Metric with its Rate
MetricDeclarations == { [Name |-> "perf-sysstat", Rate |-> r] : r \in {1, 5, 10} }

MetricSetInputs ==
    { [metrics |-> ms, application |-> app] :
        ms \in SeqsUpTo(MetricDeclarations, MaxMetrics),
        app \in ApplicationInputs }

\* a declared metric is looked up in the registry and given its options
GetMetric(metric) == PidStat_SetOptions(PidStat_Registered, metric)

InitPods ==
    /\ pc = "declared"
    /\ mset \in MetricSetInputs
    /\ insts = << >>
    /\ pods = << >>
    /\ entrypoints = << >>
    /\ ComposeIdle /\ OptionsIdle /\ RunsIdle

\* the declared metrics are configured, the containers of the replicated job
\* are built for them and their entrypoint scripts are rendered
BuildContainers ==
    /\ pc = "declared"
    /\ insts' = [i \in 1..Len(mset.metrics) |-> GetMetric(mset.metrics[i])]
    /\ pods' = getContainers(mset, insts')
    /\ entrypoints' = [i \in 1..Len(mset.metrics) |->
                        PidStat_EntrypointScript(insts'[i], mset)]
    /\ pc' = "built"
    /\ UNCHANGED <<mset, composeVars, optionVars, runVars>>

NextPods == BuildContainers

SpecPods == InitPods /\ [][NextPods]_vars

\* C10 (as claimed): the container of every metric that requires an
\* application carries the SYS_PTRACE capability, and it is a container of its
\* own in the list that also holds the 'app' container.
C10_TraceCapability ==
    (pc = "built" /\ HasApplication(mset)) =>
        /\ Len(pods) = Len(mset.metrics) + 1
        /\ pods[Len(pods)].Name = "app"
        /\ \A i \in 1..Len(mset.metrics) :
            PidStat_RequiresApplication(insts[i]) =>
                /\ "SYS_PTRACE" \in pods[i].Capabilities
                /\ pods[i].Name = PidStat_Name(insts[i])
                /\ pods[i].Name # "app"

\* C14 (as claimed): no two containers getContainers returns for a declared
\* configuration have the same name.
C14_UniqueNames ==
    pc = "built" =>
        \A i, j \in 1..Len(pods) : pods[i].Name = pods[j].Name => i = j

\* C19 (as claimed): the script of a metric declared with Rate r sleeps r
\* seconds between samples and waits on the application command of the set.
C19_RateTakesEffect ==
    pc = "built" =>
        \A i \in 1..Len(mset.metrics) :
            /\ Count(entrypoints[i], "sleep " \o ToString(mset.metrics[i].Rate)) = 1
            /\ Count(entrypoints[i],
                     "pid=$(wait -c \"" \o mset.application.command \o "\" -q)") = 1

----------------------------------------------------------------------------
(* The path of a script: where a container is launched from and where the
   script is mounted *)

\* the launch command of the container of the metric at index i of the list
LaunchCommand(i) ==
    << "/bin/bash", "/metrics_operator/entrypoint-" \o ToString(i) \o ".sh" >>

\* the paths at which the volumes of a tracer addon make its script available
MountedPaths(a) ==
    LET vs == HPCToolkit_AssembleVolumes(a) IN
    { vs[j].Path \o "/" \o vs[j].Items[n].Path :
        j \in {k \in 1..Len(vs) : vs[k].Source = "ConfigMap"}, n \in {1} }

----------------------------------------------------------------------------
(* A declared volume addon: SetOptions, Validate, AssembleVolumes *)

VolumeKinds ==
    {"volume-cm", "volume-pvc", "volume-secret", "volume-hostpath", "volume-empty"}

VolumeNew(k) ==
    CASE k = "volume-cm" -> ConfigMapVolume_New
      [] k = "volume-pvc" -> PersistentVolumeClaim_New
      [] k = "volume-secret" -> SecretVolume_New
      [] k = "volume-hostpath" -> HostPathVolume_New
      [] k = "volume-empty" -> EmptyVolume_New

VolumeSetOptions(k, v, m) ==
    CASE k = "volume-cm" -> ConfigMapVolume_SetOptions(v, m)
      [] k = "volume-pvc" -> PersistentVolumeClaim_SetOptions(v, m)
      [] k = "volume-secret" -> SecretVolume_SetOptions(v, m)
      [] k = "volume-hostpath" -> HostPathVolume_SetOptions(v, m)
      [] k = "volume-empty" -> EmptyVolume_SetOptions(v, m)

VolumeValidate(k, v) ==
    CASE k = "volume-cm" -> ConfigMapVolume_Validate(v)
      [] k = "volume-pvc" -> PersistentVolumeClaim_Validate(v)
      [] k = "volume-secret" -> SecretVolume_Validate(v)
      [] k = "volume-hostpath" -> HostPathVolume_Validate(v)
      [] k = "volume-empty" -> EmptyVolume_Validate(v)

\* everything AssembleVolumes can return for the instance
VolumeAssembled(k, v) ==
    CASE k = "volume-cm" -> ConfigMapVolume_Assembled(v)
      [] k = "volume-pvc" -> {PersistentVolumeClaim_AssembleVolumes(v)}
      [] k = "volume-secret" -> {SecretVolume_AssembleVolumes(v)}
      [] k = "volume-hostpath" -> {HostPathVolume_AssembleVolumes(v)}
      [] k = "volume-empty" -> {EmptyVolume_AssembleVolumes(v)}

\* the option a volume type requires besides name and path
SourceKey(k) ==
    CASE k = "volume-cm" -> "configMapName"
      [] k = "volume-pvc" -> "claimName"
      [] k = "volume-secret" -> "secretName"
      [] k = "volume-hostpath" -> "hostPath"
      [] k = "volume-empty" -> "name"

SourceValue(k) ==
    CASE k = "volume-cm" -> "my-config"
      [] k = "volume-pvc" -> "data-claim"
      [] k = "volume-secret" -> "registry-secret"
      [] k = "volume-hostpath" -> "/var/data"
      [] k = "volume-empty" -> "scratch"

VolumeBags(k) ==
    IF k = "volume-cm" THEN ConfigMapBags
    ELSE { [Options |-> n @@ q @@ c @@ r, MapOptions |-> NoOptions] :
            n \in {NoOptions, [name |-> "scratch"]},
            q \in {NoOptions, [path |-> "/mnt/data/file.txt"]},
            c \in {NoOptions, [x \in {SourceKey(k)} |-> SourceValue(k)]},
            r \in {NoOptions, [readOnly |-> "yes"], [readOnly |-> "no"]} }

InitVolumes ==
    /\ pc = "volume"
    /\ kind \in VolumeKinds
    /\ inst = VolumeNew(kind)
    /\ bag = NoOptions
    /\ nset = 0
    /\ copy = NoOptions
    /\ assembled = << >>
    /\ ComposeIdle /\ RunsIdle /\ PodsIdle

\* SetOptions on the volume addon, which may have been configured before
DeclareVolume(m) ==
    /\ pc = "volume"
    /\ nset < MaxSetOptions
    /\ inst' = VolumeSetOptions(kind, inst, m)
    /\ bag' = m
    /\ nset' = nset + 1
    /\ UNCHANGED <<pc, kind, copy, assembled, composeVars, runVars, podVars>>

\* the volumes of an addon that passed Validate are assembled
AssembleVolumes ==
    /\ pc = "volume"
    /\ nset >= 1
    /\ VolumeValidate(kind, inst)
    /\ assembled' \in VolumeAssembled(kind, inst)
    /\ pc' = "assembled"
    /\ UNCHANGED <<kind, inst, bag, nset, copy, composeVars, runVars, podVars>>

NextVolumes ==
    \/ \E m \in VolumeBags(kind) : DeclareVolume(m)
    \/ AssembleVolumes

SpecVolumes == InitVolumes /\ [][NextVolumes]_vars

\* the option bag supplies every field the type requires
Complete(k, m) ==
    /\ HasOpt(m, "name") /\ HasOpt(m, "path") /\ HasOpt(m, SourceKey(k))
    /\ k = "volume-cm" => (HasMapOpt(m, "items") /\ DOMAIN m.MapOptions["items"] # {})

\* C16 (as claimed): Validate after SetOptions on a fresh volume addon returns
\* true when the option bag supplies every required field of the type, and
\* false when one of them is missing.
C16_ValidateComplete ==
    (pc = "volume" /\ nset = 1) => (VolumeValidate(kind, inst) <=> Complete(kind, bag))

IsTrue(m, k) == HasOpt(m, k) /\ m.Options[k] \in {"yes", "true"}

\* C17 (as claimed): the volume a validated volume addon assembles has the
\* declared name, a mount path derived from the declared path (the path for
\* secret, host-path and empty volumes, its directory for config-map and
\* persistent-claim volumes), neither empty nor '.', and it is read-only for
\* a config map and otherwise exactly when readOnly is 'yes' or 'true'.
C17_AssembledReflectsOptions ==
    (pc = "assembled" /\ nset = 1) =>
        LET v == assembled[1]
            n == bag.Options["name"]
            p == bag.Options["path"]
        IN  /\ Len(assembled) = 1
            /\ v.Name = n /\ v.Name # ""
            /\ v.Path = (IF kind \in {"volume-cm", "volume-pvc"} THEN Dir(p) ELSE p)
            /\ v.Path \notin {"", "."}
            /\ v.ReadOnly = (kind = "volume-cm" \/ IsTrue(bag, "readOnly"))

====
